---------------------------- MODULE Spec2Model ----------------------------
(***************************************************************************)
(* A model of src/type_id.rs of the type-metadata crate: the Namespace     *)
(* constructors (new, from_module_path, prelude) and the IntoCompact       *)
(* transform of TypeId and of its variants against a Registry.             *)
(*                                                                         *)
(* A string is a sequence of one-character strings, so that splitting and  *)
(* the identifier predicate work on characters.  A TypeId is a record with *)
(* a tag field; a Result is a record with an ok field.                     *)
(***************************************************************************)
EXTENDS Integers, Sequences, FiniteSets, TLC

VARIABLES
    op,         \* Namespace constructor that ran last ("none" before any)
    arg,        \* the argument the caller passes to the Namespace constructor
    result,     \* what that constructor returned
    registry,   \* the Registry: its string table and its type table
    input,      \* the TypeId handed to the last into_compact call
    output,     \* the compacted TypeId that call returned
    calls,      \* the Registry calls that call made itself, in order
    before,     \* the Registry as it was when that call started
    history     \* the (TypeId, compacted TypeId) of every call so far, in order

vars == <<op, arg, result, registry, input, output, calls, before, history>>

nsVars == <<op, arg, result>>

compactVars == <<registry, input, output, calls, before, history>>

---------------------------------------------------------------------------
(* Bounds of the model. *)

\* longest segment list handed to Namespace::new
MaxSegs == 2

\* longest segment, in characters
MaxSegLen == 2

\* longest module path, in characters
MaxPathLen == 4

\* most elements of a tuple
MaxParams == 2

\* most into_compact calls against the one Registry
MaxCalls == 3

---------------------------------------------------------------------------
(* Characters and strings. *)

Alphabetic == {"a"}

Numeric == {"1"}

\* characters of the segments handed to Namespace::new
SegChars == Alphabetic \cup Numeric \cup {"_", "!"}

\* characters of the module paths handed to Namespace::from_module_path
PathChars == SegChars \cup {":"}

\* all sequences over S of length at most n
SeqsUpTo(S, n) == UNION {[1..k -> S] : k \in 0..n}

Min(S) == CHOOSE m \in S : \A n \in S : m <= n

\* utils::is_rust_identifier: non-empty, the first character an underscore or
\* alphabetic, every later character alphanumeric or an underscore.
is_rust_identifier(s) ==
    /\ Len(s) > 0
    /\ s[1] = "_" \/ s[1] \in Alphabetic
    /\ \A i \in 2..Len(s) : s[i] = "_" \/ s[i] \in Alphabetic \cup Numeric

---------------------------------------------------------------------------
(* Results of the Namespace constructors. *)

Ok(segs) == [ok |-> TRUE, segments |-> segs]

MissingSegments == [ok |-> FALSE, err |-> "MissingSegments"]

InvalidIdentifier(i) == [ok |-> FALSE, err |-> "InvalidIdentifier", segment |-> i]

NoResult == [ok |-> FALSE, err |-> "none"]

\* position as Iterator::rposition would have it: the last such segment
position_last(segments) ==
    LET bad == {i \in 1..Len(segments) : ~is_rust_identifier(segments[i])}
    IN  IF bad = {} THEN -1
        ELSE (CHOOSE m \in bad : \A n \in bad : n <= m) - 1

\* Iterator::position: the 0-based index of the first segment that is no
\* identifier, or -1 (None) when every segment is one.
position(segments) ==
    LET bad == {i \in 1..Len(segments) : ~is_rust_identifier(segments[i])}
    IN  IF bad = {} THEN -1 ELSE Min(bad) - 1

\* new with the closure of position not negated
new_not_negated(segments) ==
    IF Len(segments) = 0 THEN MissingSegments
    ELSE LET good == {i \in 1..Len(segments) : is_rust_identifier(segments[i])}
         IN  IF good # {} THEN InvalidIdentifier(Min(good) - 1)
             ELSE Ok(segments)

\* new without the is_empty check
new_no_empty_check(segments) ==
    IF position(segments) >= 0 THEN InvalidIdentifier(position(segments))
    ELSE Ok(segments)

\* new without the identifier check
new_no_identifier_check(segments) ==
    IF Len(segments) = 0 THEN MissingSegments ELSE Ok(segments)

\* Namespace::new
new(segments) ==
    IF Len(segments) = 0 THEN MissingSegments
    ELSE LET err_at == position(segments)
         IN  IF err_at >= 0 THEN InvalidIdentifier(err_at)
             ELSE Ok(segments)

\* str::split("::") as the scan the iterator makes: s is the text not yet
\* scanned, cur the segment being collected.  A "::" at the head of s ends cur
\* and the scan goes on after it; the end of the text ends the last segment,
\* which is yielded even when it is empty.
RECURSIVE split_from(_, _)
split_from(s, cur) ==
    IF Len(s) = 0 THEN <<cur>>
    ELSE IF Len(s) >= 2 /\ s[1] = ":" /\ s[2] = ":"
         THEN <<cur>> \o split_from(SubSeq(s, 3, Len(s)), <<>>)
         ELSE split_from(Tail(s), Append(cur, s[1]))

\* split(':'): every colon ends a segment
RECURSIVE split_char_from(_, _)
split_char_from(s, cur) ==
    IF Len(s) = 0 THEN <<cur>>
    ELSE IF s[1] = ":"
         THEN <<cur>> \o split_char_from(Tail(s), <<>>)
         ELSE split_char_from(Tail(s), Append(cur, s[1]))

split_char(module_path) == split_char_from(module_path, <<>>)

\* split_terminator("::"): an empty last segment is not yielded
split_terminator(module_path) ==
    LET segs == split_from(module_path, <<>>)
    IN  IF Len(segs[Len(segs)]) = 0 THEN SubSeq(segs, 1, Len(segs) - 1) ELSE segs

split(module_path) == split_from(module_path, <<>>)

\* Namespace::from_module_path
from_module_path(module_path) == new(split(module_path))

\* Namespace::prelude
prelude == Ok(<<>>)

---------------------------------------------------------------------------
(* The callers of the Namespace constructors. *)

Segments == SeqsUpTo(SeqsUpTo(SegChars, MaxSegLen), MaxSegs)

Paths == SeqsUpTo(PathChars, MaxPathLen)

Args ==
    {[kind |-> "segments", segments |-> s] : s \in Segments}
        \cup {[kind |-> "path", path |-> p] : p \in Paths}
        \cup {[kind |-> "unit"]}

CallNew ==
    /\ op = "none"
    /\ arg.kind = "segments"
    /\ op' = "new"
    /\ result' = new(arg.segments)
    /\ UNCHANGED <<arg, compactVars>>

CallFromModulePath ==
    /\ op = "none"
    /\ arg.kind = "path"
    /\ op' = "from_module_path"
    /\ result' = from_module_path(arg.path)
    /\ UNCHANGED <<arg, compactVars>>

CallPrelude ==
    /\ op = "none"
    /\ arg.kind = "unit"
    /\ op' = "prelude"
    /\ result' = prelude
    /\ UNCHANGED <<arg, compactVars>>

---------------------------------------------------------------------------
(* TypeId<MetaForm>: the five variants. *)

Primitive(p) == [tag |-> "Primitive", prim |-> p]

Tuple(ps) == [tag |-> "Tuple", type_params |-> ps]

Array(n, t) == [tag |-> "Array", len |-> n, type_param |-> t]

Slice(t) == [tag |-> "Slice", type_param |-> t]

\* TypeIdCustom::new; ns is the Ok result of a Namespace constructor
Custom(name, ns, ps) ==
    [tag |-> "Custom", name |-> name,
     namespace |-> [segments |-> ns.segments], type_params |-> ps]

---------------------------------------------------------------------------
(* The Registry: register_string and register_type intern by content and   *)
(* return the 1-based symbol of the entry.  register_type compacts a type  *)
(* the first time it sees it and keeps the compacted form.                 *)

EmptyRegistry == [strings |-> <<>>, types |-> <<>>, defs |-> {}]

\* the symbol an interner table holds for v, 0 when it holds none
symbol_of(table, v) ==
    LET at == {i \in 1..Len(table) : table[i] = v}
    IN  IF at = {} THEN 0 ELSE Min(at)

\* Registry::register_string
register_string(reg, s) ==
    LET sym == symbol_of(reg.strings, s)
    IN  IF sym # 0 THEN [reg |-> reg, ref |-> sym]
        ELSE [reg |-> [reg EXCEPT !.strings = Append(@, s)],
              ref |-> Len(reg.strings) + 1]

\* register_string for each string of strs in order
RECURSIVE register_strings(_, _)
register_strings(reg, strs) ==
    IF Len(strs) = 0 THEN [reg |-> reg, refs |-> <<>>]
    ELSE LET h == register_string(reg, Head(strs))
             t == register_strings(h.reg, Tail(strs))
         IN  [reg |-> t.reg, refs |-> <<h.ref>> \o t.refs]

\* the strings a type owns, and the types it refers to, in field order
strings_of(t) ==
    IF t.tag = "Custom" THEN <<t.name>> \o t.namespace.segments ELSE <<>>

children_of(t) ==
    CASE t.tag \in {"Custom", "Tuple"} -> t.type_params
      [] t.tag \in {"Array", "Slice"} -> <<t.type_param>>
      [] OTHER -> <<>>

\* the compacted form the Registry keeps for t, from the symbols of its
\* strings and of its children
compact_def(t, srefs, trefs) ==
    CASE t.tag = "Custom" ->
             [tag |-> "Custom", name |-> srefs[1],
              namespace |-> [segments |-> Tail(srefs)], type_params |-> trefs]
      [] t.tag = "Tuple" -> [tag |-> "Tuple", type_params |-> trefs]
      [] t.tag = "Array" -> [tag |-> "Array", len |-> t.len, type_param |-> trefs[1]]
      [] t.tag = "Slice" -> [tag |-> "Slice", type_param |-> trefs[1]]
      [] OTHER -> [tag |-> "Primitive", prim |-> t.prim]

\* r with ref put before its symbols
prepend(ref, r) == [reg |-> r.reg, refs |-> <<ref>> \o r.refs]

\* all holds the symbols of t's nk children, then those of the types after t:
\* the compacted form of t is kept under the symbol fresh, which stands for t
keep_def(t, fresh, srefs, nk, all) ==
    [reg |-> [all.reg EXCEPT
                 !.defs = @ \cup
                     {[ref |-> fresh,
                       id |-> compact_def(t, srefs, SubSeq(all.refs, 1, nk))]}],
     refs |-> <<fresh>> \o SubSeq(all.refs, nk + 1, Len(all.refs))]

\* register_type for each type of ts in order.  A type the table holds keeps
\* its symbol; a type seen for the first time is interned, then its strings
\* and its children are interned, and its compacted form is kept under its
\* symbol.
RECURSIVE register_types(_, _)

\* t has just been interned and strs holds the symbols of its strings: intern
\* its children, then the types ts after it
register_fresh(strs, t, ts) ==
    keep_def(t, Len(strs.reg.types), strs.refs, Len(children_of(t)),
             register_types(strs.reg, children_of(t) \o ts))

register_types(reg, ts) ==
    IF Len(ts) = 0 THEN [reg |-> reg, refs |-> <<>>]
    ELSE IF symbol_of(reg.types, Head(ts)) # 0
         THEN prepend(symbol_of(reg.types, Head(ts)),
                      register_types(reg, Tail(ts)))
         ELSE register_fresh(
                  register_strings([reg EXCEPT !.types = Append(@, Head(ts))],
                                   strings_of(Head(ts))),
                  Head(ts), Tail(ts))

\* Registry::register_type
register_type(reg, t) ==
    LET r == register_types(reg, <<t>>)
    IN  [reg |-> r.reg, ref |-> r.refs[1]]

---------------------------------------------------------------------------
(* IntoCompact.  st = [reg, calls] is the Registry the call works on and   *)
(* the Registry calls this into_compact has made so far.                   *)

\* the call taking the size of the string table for the symbol
call_register_string_len(s, st) ==
    LET r == register_string(st.reg, s)
    IN  [st |-> [reg |-> r.reg,
                 calls |-> Append(st.calls,
                                  [fn |-> "register_string", str |-> s,
                                   ref |-> Len(r.reg.strings)])],
         ref |-> Len(r.reg.strings)]

\* registry.register_string(s), as called from an into_compact
call_register_string(s, st) ==
    LET r == register_string(st.reg, s)
    IN  [st |-> [reg |-> r.reg,
                 calls |-> Append(st.calls,
                                  [fn |-> "register_string", str |-> s, ref |-> r.ref])],
         ref |-> r.ref]

\* registry.register_type(&t), as called from an into_compact
call_register_type(t, st) ==
    LET r == register_type(st.reg, t)
    IN  [st |-> [reg |-> r.reg,
                 calls |-> Append(st.calls,
                                  [fn |-> "register_type", ty |-> t, ref |-> r.ref])],
         ref |-> r.ref]

\* segments.into_iter().map(|seg| registry.register_string(seg)).collect()
RECURSIVE map_register_string(_, _)
map_register_string(segs, st) ==
    IF Len(segs) = 0 THEN [st |-> st, refs |-> <<>>]
    ELSE LET h == call_register_string(Head(segs), st)
             t == map_register_string(Tail(segs), h.st)
         IN  [st |-> t.st, refs |-> <<h.ref>> \o t.refs]

\* type_params.into_iter().map(|param| registry.register_type(&param)).collect()
RECURSIVE map_register_type(_, _)
map_register_type(params, st) ==
    IF Len(params) = 0 THEN [st |-> st, refs |-> <<>>]
    ELSE LET h == call_register_type(Head(params), st)
             t == map_register_type(Tail(params), h.st)
         IN  [st |-> t.st, refs |-> <<h.ref>> \o t.refs]

\* impl IntoCompact for Namespace
Namespace_into_compact(ns, st) ==
    LET m == map_register_string(ns.segments, st)
    IN  [st |-> m.st, out |-> [segments |-> m.refs]]

\* the namespace compacted before the name is registered
TypeIdCustom_namespace_first(custom, st) ==
    LET namespace == Namespace_into_compact(custom.namespace, st)
        name == call_register_string(custom.name, namespace.st)
        type_params == map_register_type(custom.type_params, name.st)
    IN  [st |-> type_params.st,
         out |-> [tag |-> "Custom", name |-> name.ref,
                  namespace |-> namespace.out, type_params |-> type_params.refs]]

\* impl IntoCompact for TypeIdCustom: the fields in the order written
TypeIdCustom_into_compact(custom, st) ==
    LET name == call_register_string(custom.name, st)
        namespace == Namespace_into_compact(custom.namespace, name.st)
        type_params == map_register_type(custom.type_params, namespace.st)
    IN  [st |-> type_params.st,
         out |-> [tag |-> "Custom", name |-> name.ref,
                  namespace |-> namespace.out, type_params |-> type_params.refs]]

\* impl IntoCompact for TypeIdArray
TypeIdArray_into_compact(array, st) ==
    LET type_param == call_register_type(array.type_param, st)
    IN  [st |-> type_param.st,
         out |-> [tag |-> "Array", len |-> array.len, type_param |-> type_param.ref]]

\* the references of a tuple collected without repetitions
TypeIdTuple_dedup(tuple, st) ==
    LET type_params == map_register_type(tuple.type_params, st)
        firsts == {i \in 1..Len(type_params.refs) :
                      \A j \in 1..(i - 1) : type_params.refs[j] # type_params.refs[i]}
    IN  [st |-> type_params.st,
         out |-> [tag |-> "Tuple",
                  type_params |->
                      [i \in 1..Cardinality(firsts) |->
                          type_params.refs[
                              CHOOSE f \in firsts :
                                  Cardinality({g \in firsts : g < f}) = i - 1]]]]

\* impl IntoCompact for TypeIdTuple
TypeIdTuple_into_compact(tuple, st) ==
    LET type_params == map_register_type(tuple.type_params, st)
    IN  [st |-> type_params.st,
         out |-> [tag |-> "Tuple", type_params |-> type_params.refs]]

\* impl IntoCompact for TypeIdSlice
TypeIdSlice_into_compact(slice, st) ==
    LET type_param == call_register_type(slice.type_param, st)
    IN  [st |-> type_param.st,
         out |-> [tag |-> "Slice", type_param |-> type_param.ref]]

\* a primitive registered like any other type
TypeIdPrimitive_registered(primitive, st) ==
    LET r == call_register_type(primitive, st)
    IN  [st |-> r.st, out |-> [tag |-> "Primitive", prim |-> primitive.prim]]

\* TypeIdPrimitive into TypeId<CompactForm>: primitive.into()
TypeIdPrimitive_into(primitive, st) ==
    [st |-> st, out |-> [tag |-> "Primitive", prim |-> primitive.prim]]

\* impl IntoCompact for TypeId: the match on the variant
TypeId_into_compact(self, st) ==
    CASE self.tag = "Custom" -> TypeIdCustom_into_compact(self, st)
      [] self.tag = "Slice" -> TypeIdSlice_into_compact(self, st)
      [] self.tag = "Array" -> TypeIdArray_into_compact(self, st)
      [] self.tag = "Tuple" -> TypeIdTuple_into_compact(self, st)
      [] self.tag = "Primitive" -> TypeIdPrimitive_into(self, st)

---------------------------------------------------------------------------
(* The callers of into_compact. *)

PrimTags == {"Bool", "U8"}

\* the types other types refer to: a primitive and a type with a child
Kids == {Primitive("Bool"), Slice(Primitive("U8"))}

Names == {<<"a">>}

\* the namespaces of the custom types, each from a constructor
Namespaces == {prelude, from_module_path(<<"a", ":", ":", "_", "1">>)}

ArrayLens == {3}

\* generic arguments of the custom types: none, a repeated one, two in order
CustomParams ==
    {<<>>, <<Primitive("Bool"), Primitive("Bool")>>,
     <<Slice(Primitive("U8")), Primitive("Bool")>>}

TypeIds ==
    {Primitive(p) : p \in PrimTags}
        \cup {Tuple(ps) : ps \in SeqsUpTo(Kids, MaxParams)}
        \cup {Array(n, t) : n \in ArrayLens, t \in Kids}
        \cup {Slice(t) : t \in Kids}
        \cup {Custom(n, ns, ps) : n \in Names, ns \in Namespaces, ps \in CustomParams}

NoTypeId == [tag |-> "none"]

\* one into_compact call of a caller that owns the Registry
IntoCompact(t) ==
    /\ Len(history) < MaxCalls
    /\ LET c == TypeId_into_compact(t, [reg |-> registry, calls |-> <<>>])
       IN  /\ registry' = c.st.reg
           /\ calls' = c.st.calls
           /\ output' = c.out
           /\ history' = Append(history, [id |-> t, compact |-> c.out])
    /\ input' = t
    /\ before' = registry
    /\ UNCHANGED nsVars

---------------------------------------------------------------------------
(* The specifications. *)

\* the Namespace constructors, each called once on one argument
InitNamespace ==
    /\ op = "none"
    /\ arg \in Args
    /\ result = NoResult
    /\ registry = EmptyRegistry
    /\ before = EmptyRegistry
    /\ input = NoTypeId
    /\ output = NoTypeId
    /\ calls = <<>>
    /\ history = <<>>

NextNamespace == CallNew \/ CallFromModulePath \/ CallPrelude

SpecNamespace == InitNamespace /\ [][NextNamespace]_vars

\* into_compact calls against one Registry, empty at first
InitCompact ==
    /\ op = "none"
    /\ arg = [kind |-> "unit"]
    /\ result = NoResult
    /\ registry = EmptyRegistry
    /\ before = EmptyRegistry
    /\ input = NoTypeId
    /\ output = NoTypeId
    /\ calls = <<>>
    /\ history = <<>>

NextCompact == \E t \in TypeIds : IntoCompact(t)

SpecCompact == InitCompact /\ [][NextCompact]_vars

---------------------------------------------------------------------------
(* Properties of the Namespace constructors (SpecNamespace). *)

\* the indices (from 1) of the segments that are no identifiers
Failing(segments) ==
    {i \in 1..Len(segments) : ~is_rust_identifier(segments[i])}

\* C1: Namespace::new on a non-empty sequence of segments that are all
\* identifiers returns Ok with exactly the input segments: same count, same
\* values, same order.
C1_NewKeepsValidSegments ==
    (op = "new" /\ Len(arg.segments) > 0 /\ Failing(arg.segments) = {})
        => /\ result.ok
           /\ Len(result.segments) = Len(arg.segments)
           /\ \A i \in 1..Len(arg.segments) : result.segments[i] = arg.segments[i]

\* new has returned Ok for two different segments, one of them "_"
C1_Witness ==
    /\ op = "new"
    /\ Len(arg.segments) = 2
    /\ arg.segments[1] = <<"_">>
    /\ arg.segments[2] = <<"a", "1">>
    /\ result.ok
    /\ result.segments = arg.segments

\* C2: Namespace::new on a non-empty sequence with a segment that is no
\* identifier returns InvalidIdentifier with the lowest index (from 0) of
\* such a segment, also when several segments fail; no segment before that
\* index fails.
C2_FirstInvalidIndex ==
    (op = "new" /\ Failing(arg.segments) # {})
        => /\ ~result.ok
           /\ result.err = "InvalidIdentifier"
           /\ result.segment + 1 \in Failing(arg.segments)
           /\ \A j \in 1..result.segment : j \notin Failing(arg.segments)

\* new has reported index 0 for an input whose two segments both fail
C2_Witness ==
    /\ op = "new"
    /\ Failing(arg.segments) = {1, 2}
    /\ arg.segments[1] # arg.segments[2]
    /\ result = InvalidIdentifier(0)

\* C3: Namespace::new on the empty sequence returns MissingSegments, and new
\* returns MissingSegments for no other input.
C3_MissingSegmentsIffEmpty ==
    op = "new" => (result = MissingSegments <=> Len(arg.segments) = 0)

\* new has been called on the empty sequence
C3_Witness ==
    /\ op = "new"
    /\ arg.segments = <<>>
    /\ result = MissingSegments

\* there is a "::" at position i of path
Separator(path, i) ==
    i + 1 <= Len(path) /\ path[i] = ":" /\ path[i + 1] = ":"

\* cuts are the places of the separators a left-to-right split of path takes:
\* each is a "::", no two overlap, and a "::" that is not taken overlaps one
\* taken just before it
Splits(path, cuts) ==
    /\ \A c \in cuts : Separator(path, c)
    /\ \A c \in cuts : c + 1 \notin cuts
    /\ \A i \in 1..Len(path) :
           (Separator(path, i) /\ i \notin cuts) => (i - 1) \in cuts

\* the k-th smallest element of cuts
Cut(cuts, k) == CHOOSE c \in cuts : Cardinality({d \in cuts : d < c}) = k - 1

\* the pieces of path between the separators at cuts
Pieces(path, cuts) ==
    LET n == Cardinality(cuts)
    IN  [k \in 1..(n + 1) |->
            SubSeq(path,
                   IF k = 1 THEN 1 ELSE Cut(cuts, k - 1) + 2,
                   IF k = n + 1 THEN Len(path) ELSE Cut(cuts, k) - 1)]

\* C4: Namespace::from_module_path(path) returns exactly what Namespace::new
\* returns on the pieces of path between its "::" separators, Ok value or
\* error and error index alike; a path that begins with "::" fails with
\* InvalidIdentifier{segment: 0}.
C4_FromModulePathIsNewOfSplit ==
    op = "from_module_path"
        => /\ \E cuts \in SUBSET (1..Len(arg.path)) : Splits(arg.path, cuts)
           /\ \A cuts \in SUBSET (1..Len(arg.path)) :
                  Splits(arg.path, cuts) => result = new(Pieces(arg.path, cuts))
           /\ Separator(arg.path, 1) => result = InvalidIdentifier(0)

\* from_module_path has split "a::_" in two and returned both segments
C4_Witness ==
    /\ op = "from_module_path"
    /\ arg.path = <<"a", ":", ":", "_">>
    /\ result = Ok(<< <<"a">>, <<"_">> >>)

\* C5: a Namespace returned by new or by from_module_path has at least one
\* segment and only identifiers as segments; prelude always returns a
\* Namespace, with no segments, and no other constructor returns one with no
\* segments.
C5_NamespaceWellFormed ==
    /\ (op \in {"new", "from_module_path"} /\ result.ok)
           => /\ Len(result.segments) >= 1
              /\ Failing(result.segments) = {}
    /\ op = "prelude" => (result.ok /\ Len(result.segments) = 0)
    /\ (op # "none" /\ result.ok /\ Len(result.segments) = 0) => op = "prelude"

\* prelude has returned the Namespace with no segments
C5_Witness ==
    /\ op = "prelude"
    /\ result.ok
    /\ result.segments = <<>>

\* C10: Namespace::from_module_path never returns MissingSegments: the split
\* of any path, the empty one too, has at least one segment, every failure is
\* InvalidIdentifier, and the empty path fails with InvalidIdentifier{segment: 0}.
C10_FromModulePathNeverMissing ==
    op = "from_module_path"
        => /\ result # MissingSegments
           /\ ~result.ok => result.err = "InvalidIdentifier"
           /\ Len(arg.path) = 0 => result = InvalidIdentifier(0)

\* from_module_path has been called on the empty path
C10_Witness ==
    /\ op = "from_module_path"
    /\ arg.path = <<>>
    /\ result = InvalidIdentifier(0)

---------------------------------------------------------------------------
(* Properties of into_compact (SpecCompact). *)

\* C6: whatever into_compact calls were made against the Registry, two calls
\* on structurally equal TypeIds returned equal compacted TypeIds, whichever
\* came first and whatever was compacted in between.
C6_EqualTypeIdsCompactEqual ==
    \A i, j \in 1..Len(history) :
        history[i].id = history[j].id => history[i].compact = history[j].compact

\* a custom type has been compacted, then a tuple of two, then an equal
\* custom type again
C6_Witness ==
    /\ Len(history) = 3
    /\ history[1].id.tag = "Custom"
    /\ Len(history[1].id.namespace.segments) = 2
    /\ history[2].id.tag = "Tuple"
    /\ Len(history[2].id.type_params) = 2
    /\ history[3].id = history[1].id
    /\ history[3].compact = history[1].compact

\* C7: into_compact keeps the variant and the arity: a Tuple of n elements
\* gives a Tuple of n references, a Custom of k type_params and m namespace
\* segments gives a Custom of k type references and m string references, an
\* Array keeps its len, and a Slice gives a Slice of one type reference.
C7_SameVariantSameArity ==
    input.tag # "none"
        => /\ output.tag = input.tag
           /\ input.tag = "Tuple"
                  => Len(output.type_params) = Len(input.type_params)
           /\ input.tag = "Custom"
                  => /\ Len(output.type_params) = Len(input.type_params)
                     /\ Len(output.namespace.segments)
                            = Len(input.namespace.segments)
                     /\ output.name \in 1..Len(registry.strings)
           /\ input.tag = "Array"
                  => /\ output.len = input.len
                     /\ output.type_param \in 1..Len(registry.types)
           /\ input.tag = "Slice"
                  => output.type_param \in 1..Len(registry.types)

\* a tuple whose two elements are equal has been compacted after another type
C7_Witness ==
    /\ Len(history) = 2
    /\ input.tag = "Tuple"
    /\ Len(input.type_params) = 2
    /\ input.type_params[1] = input.type_params[2]
    /\ Len(output.type_params) = 2

\* C8: compacting a Primitive returns the Primitive of the same tag, calls
\* neither register_string nor register_type, and leaves the Registry as it
\* was.
C8_PrimitiveLeavesRegistry ==
    input.tag = "Primitive"
        => /\ output = [tag |-> "Primitive", prim |-> input.prim]
           /\ calls = <<>>
           /\ registry = before

\* a Primitive has been compacted against a Registry that holds other types
\* and not this one
C8_Witness ==
    /\ input.tag = "Primitive"
    /\ Len(before.types) > 0
    /\ symbol_of(before.types, input) = 0
    /\ output.tag = "Primitive"

\* C9: compacting a Custom calls register_string(name), then register_string
\* for each namespace segment from first to last, then register_type for
\* each type_params entry from first to last, and nothing else; the i-th
\* reference of the compacted namespace and of the compacted type_params is
\* the one returned for the i-th segment and for the i-th parameter.
C9_CustomCallsInFieldOrder ==
    input.tag = "Custom"
        => LET m == Len(input.namespace.segments)
               k == Len(input.type_params)
           IN  /\ Len(calls) = 1 + m + k
               /\ calls[1].fn = "register_string"
               /\ calls[1].str = input.name
               /\ calls[1].ref = output.name
               /\ \A i \in 1..m :
                      /\ calls[1 + i].fn = "register_string"
                      /\ calls[1 + i].str = input.namespace.segments[i]
                      /\ calls[1 + i].ref = output.namespace.segments[i]
               /\ \A i \in 1..k :
                      /\ calls[1 + m + i].fn = "register_type"
                      /\ calls[1 + m + i].ty = input.type_params[i]
                      /\ calls[1 + m + i].ref = output.type_params[i]

\* a Custom with two namespace segments and the same parameter twice has
\* been compacted, and the parameter kept both its positions
C9_Witness ==
    /\ input.tag = "Custom"
    /\ Len(input.namespace.segments) = 2
    /\ Len(input.type_params) = 2
    /\ input.type_params[1] = input.type_params[2]
    /\ Len(calls) = 5
    /\ output.type_params[1] = output.type_params[2]

===========================================================================
